---- MODULE Spec2Model ----
(***************************************************************************)
(* EasyFS VFS layer (easy-fs/src/vfs.rs): the Inode operations find,       *)
(* create, link, unlink, read_at, write_at and clear over one root         *)
(* directory, with the DiskInode, bitmap and block-cache layers they call. *)
(***************************************************************************)
EXTENDS Integers, Sequences, FiniteSets, Bags, TLC

\* ------------------------------------------------------------------ bounds
\* names the callers use: 1..NumNames
NumNames == 2
\* successful create calls in one run
MaxFiles == 1
\* successful link calls in one run
MaxLinks == 1
\* longest byte string handed to write_at / buffer handed to read_at
MaxLen == 2
\* threads of the concurrent specification
NumThreads == 2
\* fork calls of the waiting process in one run
MaxChildren == 3

\* ------------------------------------------------------- program constants
BLOCK_SZ == 512
DIRENT_SZ == 32
INODE_DIRECT_COUNT == 27
INODE_INDIRECT1_COUNT == BLOCK_SZ \div 4
INODES_PER_BLOCK == 4
\* u32::MAX, the value 0u32 - 1 wraps to; TLC's integers are 32-bit signed, so its
\* largest integer stands for 2^32 - 1
U32_MAX == 2147483647
\* the inode_number field of a DirEntry, packed below its name
INO_FIELD == 65536
ROOT_INODE == 0

\* Option: None; Some(()) of link and unlink; Some(id) is the id itself
NONE == -1
SOME == 0
OK == "ok"
HANG == "hang"

Names == 1..NumNames
Threads == 1..NumThreads
\* number of files the root directory holds when the run starts
PreloadCounts == {0, 15}
\* the i-th file present at start is called PreName(i) and has inode id i
PreName(i) == NumNames + i - 1

VARIABLES
    inodes,        \* inode id -> DiskInode [size, hard_link, type, blocks]
    disk,          \* <<data block id, offset in block>> -> stored value (absent = 0)
    dataBitmap,    \* set of allocated data block ids
    inodeBitmap,   \* set of allocated inode ids
    status,        \* "ok", "hang" (spinning on a cache-entry lock) or the panic message
    handles,       \* inode ids of the Inode handles callers keep (those create returned)
    named,         \* bag of the (name, inode) bindings successfully created and not unlinked
    nCreated,      \* successful create calls so far
    nLinked,       \* successful link calls so far
    threads,       \* thread -> [pc, name, new_name, ino]: position inside link / unlink
    lastOp         \* the call that returned (or died) last: [op, name, new_name, ino, off, buf, ret]

\* the process that calls sys_waitpid
VARIABLES
    children,      \* its children list: sequence of [pid, zombie, exit_code, refs]
    next_pid,      \* the pid the next fork hands out
    exit_code_mem, \* the i32 in the caller's memory that exit_code_ptr points to
    lastSys        \* the process syscall made last: [op, pid, ret]

procVars == <<children, next_pid, exit_code_mem, lastSys>>

\* the locks the operations take, and the write-back state of the block cache
VARIABLES
    efs_lock,      \* the thread holding the EFS mutex (Inode.fs), or 0
    held,          \* thread -> the cache-entry locks it holds, innermost last: [key, modify]
    dirty,         \* the cache entries whose modified flag is set
    call           \* thread -> the operation it is executing and its position in it

lockVars == <<efs_lock, held, dirty, call>>

\* the task that makes the file syscalls
VARIABLES
    fd_table,      \* its fd table: the slot of fd is fd_table[fd + 1], an open file or NONE
    stat_mem,      \* the Stat in the caller's memory that st points to
    lastFd         \* the fd syscall made last: [op, fd, ret]

fdVars == <<fd_table, stat_mem, lastFd>>

\* what the filesystem operations leave alone
otherVars == <<procVars, lockVars, fdVars>>

vars == <<inodes, disk, dataBitmap, inodeBitmap, status, handles,
          named, nCreated, nLinked, threads, lastOp, otherVars>>

\* the filesystem state the operations transform
cur == [inodes |-> inodes, disk |-> disk, dataBitmap |-> dataBitmap,
        inodeBitmap |-> inodeBitmap, status |-> status]

Min(S) == CHOOSE x \in S : \A y \in S : x <= y
Max(S) == CHOOSE x \in S : \A y \in S : x >= y

\* ------------------------------------------------------------ block cache
\* one cell of a data block; a block never written reads as zero
ReadCell(d, b, o) == IF <<b, o>> \in DOMAIN d THEN d[<<b, o>>] ELSE 0

WriteCell(d, b, o, v) ==
    IF v = 0
    THEN [k \in (DOMAIN d) \ {<<b, o>>} |-> d[k]]
    ELSE [k \in (DOMAIN d) \cup {<<b, o>>} |-> IF k = <<b, o>> THEN v ELSE d[k]]

\* ----------------------------------------------------------------- layout
\* DirEntry::new(name, inode_number).as_bytes(): one DIRENT_SZ-byte unit
DirEntryNew(name, ino) == name * INO_FIELD + ino
DirEntryName(e) == e \div INO_FIELD
DirEntryInodeNumber(e) == e % INO_FIELD
DirEntryEmpty == 0

CeilDiv(a, b) == (a + b - 1) \div b

data_blocks(size) == CeilDiv(size, BLOCK_SZ)

total_blocks(size) ==
    LET data == data_blocks(size)
        ind1 == IF data > INODE_DIRECT_COUNT THEN 1 ELSE 0
        ind2 == IF data > INODE_DIRECT_COUNT + INODE_INDIRECT1_COUNT
                THEN 1 + CeilDiv(data - INODE_DIRECT_COUNT - INODE_INDIRECT1_COUNT,
                                 INODE_INDIRECT1_COUNT)
                ELSE 0
    IN  data + ind1 + ind2

blocks_num_needed(di, new_size) == total_blocks(new_size) - total_blocks(di.size)

\* position, in the inode's allocation-ordered block list, of logical data block i
BlockPos(i) ==
    i + 1
    + (IF i >= INODE_DIRECT_COUNT THEN 1 ELSE 0)
    + (IF i >= INODE_DIRECT_COUNT + INODE_INDIRECT1_COUNT
       THEN 1 + ((i - INODE_DIRECT_COUNT - INODE_INDIRECT1_COUNT) \div INODE_INDIRECT1_COUNT) + 1
       ELSE 0)

get_block_id(di, i) == di.blocks[BlockPos(i)]

DiskInodeInitialize(type) == [size |-> 0, hard_link |-> 1, type |-> type, blocks |-> <<>>]

DiskInodeIncreaseSize(di, new_size, new_blocks) ==
    [di EXCEPT !.size = new_size, !.blocks = @ \o new_blocks]

\* get_disk_inode_pos: the inode-table block an inode lives in
InodeBlock(ino) == ino \div INODES_PER_BLOCK

\* ------------------------------------------------------------- DiskInode
Panic(s, msg) == [s EXCEPT !.status = msg]

\* DiskInode::read_at for one byte at file offset p (p < size)
ByteAt(s, ino, p) ==
    ReadCell(s.disk, get_block_id(s.inodes[ino], p \div BLOCK_SZ), p % BLOCK_SZ)

\* DiskInode::read_at(offset, buf): the bytes copied, at most up to size
DiskInodeReadAt(s, ino, offset, len) ==
    LET end == Min({offset + len, s.inodes[ino].size})
    IN  IF offset >= end THEN <<>>
        ELSE [k \in 1..(end - offset) |-> ByteAt(s, ino, offset + k - 1)]

RECURSIVE WriteCells(_, _, _, _, _)
WriteCells(d, di, p, buf, k) ==
    IF k > Len(buf) THEN d
    ELSE WriteCells(WriteCell(d, get_block_id(di, (p + k - 1) \div BLOCK_SZ),
                              (p + k - 1) % BLOCK_SZ, buf[k]),
                    di, p, buf, k + 1)

\* DiskInode::write_at(offset, buf): [s, ret]; writes up to size, never grows
DiskInodeWriteAt(s, ino, offset, buf) ==
    LET end == Min({offset + Len(buf), s.inodes[ino].size})
    IN  IF offset > end
        THEN [s |-> Panic(s, "assertion failed: start <= end"), ret |-> 0]
        ELSE IF offset = end THEN [s |-> s, ret |-> 0]
        ELSE [s |-> [s EXCEPT !.disk = WriteCells(@, s.inodes[ino], offset,
                                                  SubSeq(buf, 1, end - offset), 1)],
              ret |-> end - offset]

\* the directory entry stored in slot i of directory dir
DirEntryAt(s, dir, i) ==
    LET off == DIRENT_SZ * i
    IN  ReadCell(s.disk, get_block_id(s.inodes[dir], off \div BLOCK_SZ), off % BLOCK_SZ)

\* disk_inode.write_at(DIRENT_SZ * i, dirent.as_bytes())
WriteDirent(s, dir, i, e) ==
    LET off == DIRENT_SZ * i
        end == Min({off + DIRENT_SZ, s.inodes[dir].size})
    IN  IF s.status # OK THEN s
        ELSE IF off > end THEN Panic(s, "assertion failed: start <= end")
        ELSE IF end - off < DIRENT_SZ THEN s
        ELSE [s EXCEPT !.disk = WriteCell(@, get_block_id(s.inodes[dir], off \div BLOCK_SZ),
                                          off % BLOCK_SZ, e)]

\* --------------------------------------------------------------- bitmaps
\* Bitmap::alloc: the first zero bit
FirstFree(bitmap) ==
    CHOOSE b \in 0..Cardinality(bitmap) : b \notin bitmap /\ \A c \in 0..(b - 1) : c \in bitmap

RECURSIVE AllocData(_, _, _)
\* n calls of fs.alloc_data(): [bitmap, blocks]
AllocData(bitmap, n, acc) ==
    IF n <= 0 THEN [bitmap |-> bitmap, blocks |-> acc]
    ELSE AllocData(bitmap \cup {FirstFree(bitmap)}, n - 1, Append(acc, FirstFree(bitmap)))

SeqToSet(q) == {q[k] : k \in 1..Len(q)}

\* fs.dealloc_data for every block of the list: zero the block, clear its bit
DeallocData(s, blocks) ==
    IF ~(SeqToSet(blocks) \subseteq s.dataBitmap) \/ Cardinality(SeqToSet(blocks)) # Len(blocks)
    THEN Panic(s, "bitmap dealloc of a free bit")
    ELSE [s EXCEPT !.dataBitmap = @ \ SeqToSet(blocks),
                   !.disk = [k \in {c \in DOMAIN @ : c[1] \notin SeqToSet(blocks)} |-> @[k]]]

\* ------------------------------------------------------------------- vfs
file_count(s, dir) == s.inodes[dir].size \div DIRENT_SZ

\* slots of dir whose entry is called name, in on-disk order
SlotsNamed(s, dir, name) ==
    {i \in 0..(file_count(s, dir) - 1) : DirEntryName(DirEntryAt(s, dir, i)) = name}

find_inode_id(s, dir, name) ==
    LET hits == SlotsNamed(s, dir, name)
    IN  IF hits = {} THEN NONE
        ELSE DirEntryInodeNumber(DirEntryAt(s, dir, Min(hits)))

\* increase_size without the early return for a new size below the current one
increase_size_NoGuard(s, ino, new_size) ==
    LET a == AllocData(s.dataBitmap, blocks_num_needed(s.inodes[ino], new_size), <<>>)
    IN  [s EXCEPT !.dataBitmap = a.bitmap,
                  !.inodes[ino] = DiskInodeIncreaseSize(@, new_size, a.blocks)]

increase_size(s, ino, new_size) ==
    IF new_size < s.inodes[ino].size THEN s
    ELSE LET a == AllocData(s.dataBitmap, blocks_num_needed(s.inodes[ino], new_size), <<>>)
         IN  [s EXCEPT !.dataBitmap = a.bitmap,
                       !.inodes[ino] = DiskInodeIncreaseSize(@, new_size, a.blocks)]

\* decrease_size without the assertion that the block count stays the same
decrease_size_NoAssert(s, ino, new_size) ==
    IF new_size > s.inodes[ino].size
    THEN Panic(s, "new size is bigger than old size")
    ELSE [s EXCEPT !.inodes[ino].size = new_size]

decrease_size(s, ino, new_size) ==
    IF new_size > s.inodes[ino].size
    THEN Panic(s, "new size is bigger than old size")
    ELSE IF total_blocks(new_size) # total_blocks(s.inodes[ino].size)
         THEN Panic([s EXCEPT !.inodes[ino].size = new_size],
                    "truncation should not change block size")
         ELSE [s EXCEPT !.inodes[ino].size = new_size]

\* remove_dir_entry that truncates without moving the last entry into the freed slot
remove_dir_entry_NoSwap(s, dir, name) ==
    LET fc == file_count(s, dir)
    IN  IF SlotsNamed(s, dir, name) = {} THEN Panic(s, "no such file")
        ELSE decrease_size(WriteDirent(s, dir, fc - 1, DirEntryEmpty), dir,
                           s.inodes[dir].size - DIRENT_SZ)

remove_dir_entry(s, dir, name) ==
    LET fc == file_count(s, dir)
        hits == SlotsNamed(s, dir, name)
    IN  IF hits = {} THEN Panic(s, "no such file")
        ELSE LET index == Min(hits)
                 last  == DirEntryAt(s, dir, fc - 1)
                 s1    == WriteDirent(s, dir, index, last)
                 s2    == WriteDirent(s1, dir, fc - 1, DirEntryEmpty)
             IN  IF s2.status # OK THEN s2
                 ELSE decrease_size(s2, dir, s2.inodes[dir].size - DIRENT_SZ)

\* Inode::find: [s, ret]; ret is the inode id of the handle, or NONE
find(s, dir, name) == [s |-> s, ret |-> find_inode_id(s, dir, name)]

\* create that writes the new entry without growing the directory first
create_NoGrow(s, dir, name) ==
    IF find_inode_id(s, dir, name) # NONE THEN [s |-> s, ret |-> NONE]
    ELSE LET new_inode_id == FirstFree(s.inodeBitmap)
             s1 == [s EXCEPT !.inodeBitmap = @ \cup {new_inode_id},
                             !.inodes = (new_inode_id :> DiskInodeInitialize("File")) @@ @]
         IN  [s |-> WriteDirent(s1, dir, file_count(s1, dir), DirEntryNew(name, new_inode_id)),
              ret |-> new_inode_id]

\* create that does not look for an entry called name first
create_NoCheck(s, dir, name) ==
    LET new_inode_id == FirstFree(s.inodeBitmap)
        s1 == [s EXCEPT !.inodeBitmap = @ \cup {new_inode_id},
                        !.inodes = (new_inode_id :> DiskInodeInitialize("File")) @@ @]
        fc == file_count(s1, dir)
        s2 == increase_size(s1, dir, (fc + 1) * DIRENT_SZ)
    IN  [s |-> WriteDirent(s2, dir, fc, DirEntryNew(name, new_inode_id)),
         ret |-> new_inode_id]

\* Inode::create: [s, ret]; ret is the inode id of the new handle, or NONE
create(s, dir, name) ==
    IF find_inode_id(s, dir, name) # NONE THEN [s |-> s, ret |-> NONE]
    ELSE LET new_inode_id == FirstFree(s.inodeBitmap)
             s1 == [s EXCEPT !.inodeBitmap = @ \cup {new_inode_id},
                             !.inodes = (new_inode_id :> DiskInodeInitialize("File")) @@ @]
             fc == file_count(s1, dir)
             s2 == increase_size(s1, dir, (fc + 1) * DIRENT_SZ)
             s3 == WriteDirent(s2, dir, fc, DirEntryNew(name, new_inode_id))
         IN  [s |-> s3, ret |-> new_inode_id]

\* Inode::read_at: the bytes placed in buf (their count is the return value)
read_at(s, ino, offset, len) == DiskInodeReadAt(s, ino, offset, len)

\* write_at that grows the file to offset instead of offset + buf.len()
write_at_GrowToOffset(s, ino, offset, buf) ==
    DiskInodeWriteAt(increase_size(s, ino, offset), ino, offset, buf)

\* Inode::write_at: [s, ret]
write_at(s, ino, offset, buf) ==
    DiskInodeWriteAt(increase_size(s, ino, offset + Len(buf)), ino, offset, buf)

\* clearInternal that returns all but the last of the inode's blocks to the bitmap
clearInternal_LeakLast(s, ino) ==
    LET blocks == s.inodes[ino].blocks
    IN  DeallocData([s EXCEPT !.inodes[ino].size = 0, !.inodes[ino].blocks = <<>>],
                    SubSeq(blocks, 1, Len(blocks) - 1))

\* Inode::clearInternal
clearInternal(s, ino) ==
    LET size   == s.inodes[ino].size
        blocks == s.inodes[ino].blocks
        s1     == [s EXCEPT !.inodes[ino].size = 0, !.inodes[ino].blocks = <<>>]
    IN  IF Len(blocks) # total_blocks(size)
        THEN Panic(s1, "assertion failed: data_blocks_dealloc.len() == total_blocks(size)")
        ELSE DeallocData(s1, blocks)

\* clear that forgets the inode's blocks without returning them to the bitmap
clear_NoDealloc(s, ino) == [s EXCEPT !.inodes[ino].size = 0, !.inodes[ino].blocks = <<>>]

\* Inode::clear
clear(s, ino) == clearInternal(s, ino)

\* Inode::link after its find(old_name) returned the handle old_inode:
\* the part run under the second acquisition of the EFS lock
link_locked(s, dir, old_inode, new_name) ==
    LET fc == file_count(s, dir)
        s1 == increase_size(s, dir, (fc + 1) * DIRENT_SZ)
    IN  IF InodeBlock(old_inode) = InodeBlock(dir)
        THEN [s1 EXCEPT !.status = HANG]
        ELSE WriteDirent([s1 EXCEPT !.inodes[old_inode].hard_link =
                                        IF @ = U32_MAX THEN 0 ELSE @ + 1],
                         dir, fc, DirEntryNew(new_name, old_inode))

\* unlink that removes the entry and leaves hard_link as it was
unlink_locked_NoDecrement(s, dir, name, old_inode, oc) == remove_dir_entry(s, dir, name)

\* unlink that gives the inode-bitmap slot back once the last name is gone
unlink_locked_FreeInode(s, dir, name, old_inode, oc) ==
    LET s1 == remove_dir_entry(s, dir, name)
        hl == s1.inodes[old_inode].hard_link
    IN  IF s1.status # OK \/ hl = 0 THEN s1
        ELSE IF hl - 1 <= 0
             THEN [clearInternal([s1 EXCEPT !.inodes[old_inode].hard_link = hl - 1],
                                 old_inode)
                      EXCEPT !.inodeBitmap = @ \ {old_inode}]
             ELSE [s1 EXCEPT !.inodes[old_inode].hard_link = hl - 1]

\* Inode::unlink after its find(name) returned the handle old_inode
unlink_locked(s, dir, name, old_inode, oc) ==
    LET s1 == remove_dir_entry(s, dir, name)
        hl == s1.inodes[old_inode].hard_link
    IN  IF s1.status # OK THEN s1
        ELSE IF hl = 0
             THEN IF oc THEN Panic(s1, "attempt to subtract with overflow")
                  ELSE [s1 EXCEPT !.inodes[old_inode].hard_link = U32_MAX]
             ELSE IF hl - 1 <= 0
                  THEN clearInternal([s1 EXCEPT !.inodes[old_inode].hard_link = hl - 1],
                                     old_inode)
                  ELSE [s1 EXCEPT !.inodes[old_inode].hard_link = hl - 1]

\* Inode::link, called by one thread with no other thread running: [s, ret]
link(s, dir, old_name, new_name) ==
    IF find_inode_id(s, dir, old_name) = NONE THEN [s |-> s, ret |-> NONE]
    ELSE [s |-> link_locked(s, dir, find_inode_id(s, dir, old_name), new_name),
          ret |-> SOME]

\* Inode::unlink, called by one thread with no other thread running: [s, ret]
unlink(s, dir, name, oc) ==
    IF find_inode_id(s, dir, name) = NONE THEN [s |-> s, ret |-> NONE]
    ELSE [s |-> unlink_locked(s, dir, name, find_inode_id(s, dir, name), oc),
          ret |-> SOME]

\* Inode::ls: the entry names in on-disk order
ls(s, dir) == [k \in 1..file_count(s, dir) |-> DirEntryName(DirEntryAt(s, dir, k - 1))]

\* Inode::stat of the handle with inode id ino: <<inode_id, nlink, type>>
stat(s, ino) == <<ino, s.inodes[ino].hard_link, s.inodes[ino].type>>

\* ------------------------------------------------------------ initial state
\* EasyFileSystem::create: an empty root directory in inode 0
EmptyFs ==
    [inodes |-> (ROOT_INODE :> DiskInodeInitialize("Directory")),
     disk |-> << >>, dataBitmap |-> {}, inodeBitmap |-> {ROOT_INODE}, status |-> OK]

RECURSIVE Preload(_)
\* the filesystem after the first n files were created on the empty one
Preload(n) == IF n = 0 THEN EmptyFs ELSE create(Preload(n - 1), ROOT_INODE, PreName(n)).s

RECURSIVE PreloadNamed(_)
PreloadNamed(n) ==
    IF n = 0 THEN EmptyBag ELSE PreloadNamed(n - 1) (+) SetToBag({<<PreName(n), n>>})

Idle == [pc |-> "idle", name |-> 0, new_name |-> 0, ino |-> NONE]

\* what link, unlink, write_at and clear found when they took the EFS lock to change
\* the filesystem: the number of allocated data blocks; the size, blocks and
\* hard_link of the inode they act on; what their name resolved to at that moment
NoPre == [used |-> 0, size |-> 0, blocks |-> <<>>, hard_link |-> 0, resolved |-> NONE]
PreOf(ino) ==
    IF ino \in inodeBitmap
    THEN [NoPre EXCEPT !.used = Cardinality(dataBitmap), !.size = inodes[ino].size,
                       !.blocks = inodes[ino].blocks, !.hard_link = inodes[ino].hard_link]
    ELSE [NoPre EXCEPT !.used = Cardinality(dataBitmap)]

NoOp == [op |-> "none", t |-> 0, name |-> 0, new_name |-> 0, ino |-> NONE,
         off |-> 0, len |-> 0, buf |-> <<>>, ret |-> NONE, pre |-> NoPre]

\* no operation started: the EFS mutex and every cache entry free and clean
NoCall == [op |-> "none", pc |-> 0, name |-> 0, new_name |-> 0, ino |-> NONE, off |-> 0,
           buf |-> <<>>, abort |-> FALSE, spin |-> FALSE, nacq |-> 0, mine |-> {},
           synced |-> FALSE, left |-> {}, ret |-> NONE]
LockInit ==
    /\ efs_lock = 0
    /\ held = [t \in Threads |-> <<>>]
    /\ dirty = {}
    /\ call = [t \in Threads |-> NoCall]

\* StatMode
StatMode_NULL == 0
StatMode_DIR == 16384
StatMode_FILE == 32768

\* Stat::new
Stat_new(inode, mode, nlink) == [dev |-> 0, ino |-> inode, mode |-> mode, nlink |-> nlink]

\* the caller's Stat before any sys_fstat wrote it
NoStat == [dev |-> NONE, ino |-> NONE, mode |-> NONE, nlink |-> NONE]

\* an fd table slot holding Stdin or Stdout
STDIO == -2

\* a new task: stdin, stdout and stderr in fds 0, 1 and 2
NoFd == [op |-> "none", fd |-> NONE, ret |-> 0]
FdInit ==
    /\ fd_table = <<STDIO, STDIO, STDIO>>
    /\ stat_mem = NoStat
    /\ lastFd = NoFd

\* a process without children; nothing stored through exit_code_ptr yet
NoSys == [op |-> "none", pid |-> 0, ret |-> 0]
ProcInit ==
    /\ FdInit
    /\ children = <<>>
    /\ next_pid = 1
    /\ exit_code_mem = NONE
    /\ lastSys = NoSys
    /\ LockInit

Init ==
    \E n \in PreloadCounts :
        /\ inodes = Preload(n).inodes
        /\ disk = Preload(n).disk
        /\ dataBitmap = Preload(n).dataBitmap
        /\ inodeBitmap = Preload(n).inodeBitmap
        /\ status = OK
        /\ handles = {}
        /\ named = PreloadNamed(n)
        /\ nCreated = 0
        /\ nLinked = 0
        /\ threads = [t \in Threads |-> Idle]
        /\ lastOp = NoOp
        /\ ProcInit

\* ------------------------------------------------------------------ actions
\* the filesystem becomes s; a call that panicked or hangs returns nothing
SetFs(s) ==
    /\ inodes' = s.inodes
    /\ disk' = s.disk
    /\ dataBitmap' = s.dataBitmap
    /\ inodeBitmap' = s.inodeBitmap
    /\ status' = s.status

Ready(t) == status = OK /\ threads[t].pc = "idle"

\* what the caller receives: nothing when the call panicked or hangs
Ret(s, r) == IF s.status = OK THEN r ELSE NONE

Find(t, name) ==
    /\ Ready(t)
    /\ \E r \in {find(cur, ROOT_INODE, name)} :
           /\ SetFs(r.s)
           /\ lastOp' = [NoOp EXCEPT !.op = "find", !.t = t, !.name = name, !.ret = r.ret]
    /\ UNCHANGED <<handles, named, nCreated, nLinked, threads>>
    /\ UNCHANGED otherVars

Create(t, name) ==
    /\ Ready(t)
    /\ nCreated < MaxFiles
    /\ \E r \in {create(cur, ROOT_INODE, name)} :
           /\ SetFs(r.s)
           /\ handles' = IF r.ret = NONE THEN handles ELSE handles \cup {r.ret}
           /\ named' = IF r.ret = NONE \/ r.s.status # OK THEN named
                       ELSE named (+) SetToBag({<<name, r.ret>>})
           /\ nCreated' = IF r.ret = NONE THEN nCreated ELSE nCreated + 1
           /\ lastOp' = [NoOp EXCEPT !.op = "create", !.t = t, !.name = name,
                                     !.ret = Ret(r.s, r.ret)]
    /\ UNCHANGED <<nLinked, threads>>
    /\ UNCHANGED otherVars

Link(t, old_name, new_name) ==
    /\ Ready(t)
    /\ nLinked < MaxLinks
    /\ \E r \in {link(cur, ROOT_INODE, old_name, new_name)},
          ino \in {find_inode_id(cur, ROOT_INODE, old_name)} :
           /\ SetFs(r.s)
           /\ named' = IF r.ret = NONE \/ r.s.status # OK THEN named
                       ELSE named (+) SetToBag({<<new_name, ino>>})
           /\ nLinked' = IF r.ret = NONE THEN nLinked ELSE nLinked + 1
           /\ lastOp' = [NoOp EXCEPT !.op = "link", !.t = t, !.name = old_name,
                                     !.new_name = new_name, !.ino = ino,
                                     !.ret = Ret(r.s, r.ret),
                                     !.pre = [PreOf(ino) EXCEPT !.resolved = ino]]
    /\ UNCHANGED <<handles, nCreated, threads>>
    /\ UNCHANGED otherVars

\* oc: whether the build checks u32 arithmetic for overflow (debug) or wraps (release)
Unlink(t, name) ==
    /\ Ready(t)
    /\ \E oc \in BOOLEAN :
       \E r \in {unlink(cur, ROOT_INODE, name, oc)},
          ino \in {find_inode_id(cur, ROOT_INODE, name)} :
           /\ SetFs(r.s)
           /\ named' = IF r.ret = NONE \/ r.s.status # OK THEN named
                       ELSE named (-) SetToBag({<<name, ino>>})
           /\ lastOp' = [NoOp EXCEPT !.op = "unlink", !.t = t, !.name = name, !.ino = ino,
                                     !.ret = Ret(r.s, r.ret),
                                     !.pre = [PreOf(ino) EXCEPT !.resolved = ino]]
    /\ UNCHANGED <<handles, nCreated, nLinked, threads>>
    /\ UNCHANGED otherVars

WriteAt(t, h, offset, buf) ==
    /\ Ready(t)
    /\ h \in handles
    /\ \E r \in {write_at(cur, h, offset, buf)} :
           /\ SetFs(r.s)
           /\ lastOp' = [NoOp EXCEPT !.op = "write_at", !.t = t, !.ino = h, !.off = offset,
                                     !.len = Len(buf), !.buf = buf, !.ret = Ret(r.s, r.ret),
                                     !.pre = PreOf(h)]
    /\ UNCHANGED <<handles, named, nCreated, nLinked, threads>>
    /\ UNCHANGED otherVars

ReadAt(t, h, offset, len) ==
    /\ Ready(t)
    /\ h \in handles
    /\ \E got \in {read_at(cur, h, offset, len)} :
           lastOp' = [NoOp EXCEPT !.op = "read_at", !.t = t, !.ino = h, !.off = offset,
                                  !.len = len, !.buf = got, !.ret = Len(got)]
    /\ UNCHANGED <<inodes, disk, dataBitmap, inodeBitmap, status, handles,
                   named, nCreated, nLinked, threads>>
    /\ UNCHANGED otherVars

Clear(t, h) ==
    /\ Ready(t)
    /\ h \in handles
    /\ \E s \in {clear(cur, h)} :
           /\ SetFs(s)
           /\ lastOp' = [NoOp EXCEPT !.op = "clear", !.t = t, !.ino = h, !.ret = Ret(s, 0),
                                     !.pre = PreOf(h)]
    /\ UNCHANGED <<handles, named, nCreated, nLinked, threads>>
    /\ UNCHANGED otherVars

\* what the directory specification writes into its files: one byte at the start
\* of the file or right behind its direct blocks (the latter needs an index block)
SpecOffsets == {0, INODE_DIRECT_COUNT * BLOCK_SZ}
SpecBufs == {<<7>>}

Next ==
    \/ \E name \in Names : Find(1, name)
    \/ \E name \in Names : Create(1, name)
    \/ \E old_name \in Names, new_name \in Names : Link(1, old_name, new_name)
    \/ \E name \in Names : Unlink(1, name)
    \/ \E h \in handles, offset \in SpecOffsets, buf \in SpecBufs : WriteAt(1, h, offset, buf)

Spec == Init /\ [][Next]_vars

\* ---------------------------------------------- file contents: read and write
\* offsets the callers write at and read from: the first bytes of the file, the last
\* byte of its first block, and the first byte behind the direct blocks
Offsets == {0, 1, BLOCK_SZ - 1, INODE_DIRECT_COUNT * BLOCK_SZ}
\* the byte strings the callers write: up to MaxLen bytes counting up from 7
Bufs == {[k \in 1..n |-> 6 + k] : n \in 0..MaxLen}

InitIO ==
    /\ inodes = EmptyFs.inodes
    /\ disk = EmptyFs.disk
    /\ dataBitmap = EmptyFs.dataBitmap
    /\ inodeBitmap = EmptyFs.inodeBitmap
    /\ status = OK
    /\ handles = {}
    /\ named = EmptyBag
    /\ nCreated = 0
    /\ nLinked = 0
    /\ threads = [t \in Threads |-> Idle]
    /\ lastOp = NoOp
    /\ ProcInit

NextIO ==
    \/ \E name \in Names : Create(1, name)
    \/ \E h \in handles, offset \in Offsets, buf \in Bufs : WriteAt(1, h, offset, buf)
    \/ \E h \in handles, offset \in Offsets, len \in 0..MaxLen : ReadAt(1, h, offset, len)
    \/ \E h \in handles : Clear(1, h)

SpecIO == InitIO /\ [][NextIO]_vars

\* ------------------------------------------------------- truncating an inode
\* the sizes decrease_size is asked for: empty, within the first block, its last
\* byte, and the first byte of the second block
TruncSizes == {0, 1, 2, BLOCK_SZ, BLOCK_SZ + 1}

DecreaseSize(t, h, new_size) ==
    /\ Ready(t)
    /\ h \in handles
    /\ \E s \in {decrease_size(cur, h, new_size)} :
           /\ SetFs(s)
           /\ lastOp' = [NoOp EXCEPT !.op = "decrease_size", !.t = t, !.ino = h,
                                     !.off = new_size, !.ret = Ret(s, 0), !.pre = PreOf(h)]
    /\ UNCHANGED <<handles, named, nCreated, nLinked, threads>>
    /\ UNCHANGED otherVars

NextTrunc ==
    \/ \E name \in Names : Create(1, name)
    \/ \E h \in handles, offset \in Offsets, buf \in Bufs : WriteAt(1, h, offset, buf)
    \/ \E h \in handles, new_size \in TruncSizes : DecreaseSize(1, h, new_size)

SpecTrunc == InitIO /\ [][NextTrunc]_vars

\* ------------------------------------------------ threads sharing the filesystem
\* link and unlink take the EFS lock twice: once inside self.find(name), and again
\* for the change; between the two any other thread may run. Every other operation
\* holds the lock from start to end and is one step.
InFlight(pc) == Cardinality({t \in Threads : threads[t].pc = pc})

\* link: self.find(old_name)?
LinkFind(t, old_name, new_name) ==
    /\ Ready(t)
    /\ nLinked + InFlight("link") < MaxLinks
    /\ \E r \in {find(cur, ROOT_INODE, old_name)} :
           IF r.ret = NONE
           THEN /\ lastOp' = [NoOp EXCEPT !.op = "link", !.t = t, !.name = old_name,
                                          !.new_name = new_name, !.ret = NONE]
                /\ UNCHANGED threads
           ELSE /\ threads' = [threads EXCEPT ![t] = [pc |-> "link", name |-> old_name,
                                                      new_name |-> new_name, ino |-> r.ret]]
                /\ UNCHANGED lastOp
    /\ UNCHANGED <<inodes, disk, dataBitmap, inodeBitmap, status, handles, named,
                   nCreated, nLinked>>
    /\ UNCHANGED otherVars

\* link: from the second self.fs.lock() to the return
LinkLocked(t) ==
    /\ status = OK
    /\ threads[t].pc = "link"
    /\ \E s \in {link_locked(cur, ROOT_INODE, threads[t].ino, threads[t].new_name)} :
           /\ SetFs(s)
           /\ named' = IF s.status # OK THEN named
                       ELSE named (+) SetToBag({<<threads[t].new_name, threads[t].ino>>})
           /\ lastOp' = [NoOp EXCEPT !.op = "link", !.t = t, !.name = threads[t].name,
                                     !.new_name = threads[t].new_name,
                                     !.ino = threads[t].ino, !.ret = Ret(s, SOME),
                                     !.pre = [PreOf(threads[t].ino) EXCEPT !.resolved =
                                              find_inode_id(cur, ROOT_INODE, threads[t].name)]]
    /\ nLinked' = nLinked + 1
    /\ threads' = [threads EXCEPT ![t] = Idle]
    /\ UNCHANGED <<handles, nCreated>>
    /\ UNCHANGED otherVars

\* unlink: self.find(name)
UnlinkFind(t, name) ==
    /\ Ready(t)
    /\ \E r \in {find(cur, ROOT_INODE, name)} :
           IF r.ret = NONE
           THEN /\ lastOp' = [NoOp EXCEPT !.op = "unlink", !.t = t, !.name = name,
                                          !.ret = NONE,
                                          !.pre = [NoPre EXCEPT !.used = Cardinality(dataBitmap)]]
                /\ UNCHANGED threads
           ELSE /\ threads' = [threads EXCEPT ![t] = [pc |-> "unlink", name |-> name,
                                                      new_name |-> 0, ino |-> r.ret]]
                /\ UNCHANGED lastOp
    /\ UNCHANGED <<inodes, disk, dataBitmap, inodeBitmap, status, handles, named,
                   nCreated, nLinked>>
    /\ UNCHANGED otherVars

\* unlink: from the second self.fs.lock() to the return
UnlinkLocked(t) ==
    /\ status = OK
    /\ threads[t].pc = "unlink"
    /\ \E oc \in BOOLEAN :
       \E s \in {unlink_locked(cur, ROOT_INODE, threads[t].name, threads[t].ino, oc)} :
           /\ SetFs(s)
           /\ named' = IF s.status # OK THEN named
                       ELSE named (-) SetToBag({<<threads[t].name, threads[t].ino>>})
           /\ lastOp' = [NoOp EXCEPT !.op = "unlink", !.t = t, !.name = threads[t].name,
                                     !.ino = threads[t].ino, !.ret = Ret(s, SOME),
                                     !.pre = [PreOf(threads[t].ino) EXCEPT !.resolved =
                                              find_inode_id(cur, ROOT_INODE, threads[t].name)]]
    /\ threads' = [threads EXCEPT ![t] = Idle]
    /\ UNCHANGED <<handles, nCreated, nLinked>>
    /\ UNCHANGED otherVars

NextConc ==
    \/ \E t \in Threads, name \in Names : Create(t, name)
    \/ \E t \in Threads, h \in handles, offset \in SpecOffsets, buf \in SpecBufs :
          WriteAt(t, h, offset, buf)
    \/ \E t \in Threads, old_name \in Names, new_name \in Names :
          LinkFind(t, old_name, new_name)
    \/ \E t \in Threads : LinkLocked(t)
    \/ \E t \in Threads, name \in Names : UnlinkFind(t, name)
    \/ \E t \in Threads : UnlinkLocked(t)

SpecConc == Init /\ [][NextConc]_vars

\* ------------------------------------------------- locks and the block cache
\* Each operation as the sequence of lock, cache and filesystem steps its code takes:
\*   "fs.lock"         self.fs.lock()
\*   "read X"          read_disk_inode of inode X: lock X's cache entry, start the closure
\*   "enter X"         modify_disk_inode of inode X: the same, for a modifying closure
\*   "resolve"         find_inode_id inside the closure
\*   "effect"          the changes the operation makes inside the closure
\*   "exit"            the closure returns and the entry's lock is released
\*   "sync_all"        block_cache_sync_all()
\*   "drop"            the EFS MutexGuard goes out of scope
find_steps == <<"fs.lock", "read dir", "resolve", "exit", "drop">>

create_steps ==
    <<"fs.lock", "enter dir", "resolve", "exit", "enter new", "exit",
      "enter dir", "effect", "exit", "sync_all", "drop">>

\* write_at that flushes the cache before it writes
write_at_steps_SyncFirst == <<"fs.lock", "sync_all", "enter self", "effect", "exit", "drop">>

write_at_steps == <<"fs.lock", "enter self", "effect", "exit", "sync_all", "drop">>

clear_steps == <<"fs.lock", "enter self", "effect", "exit", "sync_all", "drop">>

\* link: self.find(old_name)?, then the root closure with the closure on old_inode
\* nested in it
link_steps ==
    find_steps \o <<"fs.lock", "enter dir", "enter old", "exit", "effect", "exit",
                    "sync_all", "drop">>

\* unlink: self.find(name), then the root closure, the closure on old_inode and,
\* when hard_link reached 0, the closure of clearInternal on old_inode
unlink_steps ==
    find_steps \o <<"fs.lock", "enter dir", "effect", "exit", "enter old", "exit",
                    "enter old_if_clear", "exit", "sync_all", "drop">>

Prog(op) ==
    CASE op = "find"     -> find_steps
      [] op = "create"   -> create_steps
      [] op = "write_at" -> write_at_steps
      [] op = "clear"    -> clear_steps
      [] op = "link"     -> link_steps
      [] op = "unlink"   -> unlink_steps

EnterSteps == {"read dir", "enter dir", "enter self", "enter new", "enter old",
               "enter old_if_clear"}

\* the cache entry of the inode-table block that holds inode ino
InodeKey(ino) == <<"inode", InodeBlock(ino)>>

HeldKeys(h, t) == {h[t][k].key : k \in 1..Len(h[t])}

\* get_block_cache(..).lock() that hands out the entry without taking its lock
lock_cache_entry_NoLock(h, t, key) == "acquired"

\* get_block_cache(block_id, ..).lock() by thread t: the spin mutex of the entry is
\* taken when free; a thread that holds it already spins on it forever
lock_cache_entry(h, t, key) ==
    IF key \in HeldKeys(h, t) THEN "spin"
    ELSE IF \E u \in Threads : key \in HeldKeys(h, u) THEN "wait"
    ELSE "acquired"

\* the cache entries an effect modifies besides the inode-table blocks: the data and
\* index blocks written, zeroed, taken or freed, and the bitmaps that changed
Dirtied(s0, s1) ==
    {<<"data", b>> : b \in
        {c[1] : c \in {c \in (DOMAIN s0.disk) \cup (DOMAIN s1.disk) :
                          ReadCell(s0.disk, c[1], c[2]) # ReadCell(s1.disk, c[1], c[2])}}
        \cup (s0.dataBitmap \ s1.dataBitmap) \cup (s1.dataBitmap \ s0.dataBitmap)}
    \cup (IF s0.dataBitmap # s1.dataBitmap THEN {<<"dbitmap", 0>>} ELSE {})
    \cup (IF s0.inodeBitmap # s1.inodeBitmap THEN {<<"ibitmap", 0>>} ELSE {})

\* block_cache_sync_all(): every dirty entry is written back and marked clean
block_cache_sync_all(d) == {}

Running(t) == status = OK /\ call[t].pc > 0 /\ ~call[t].spin
Step(t) == Prog(call[t].op)[call[t].pc]
InCall(op) == Cardinality({t \in Threads : call[t].pc > 0 /\ call[t].op = op})
Returned(t) == call[t].pc = 0 /\ call[t].op # "none"

fsGhost == <<named, threads, lastOp, procVars, fdVars>>

\* a thread calls an operation of the root Inode or of a file handle
LkBegin(t, op, name, new_name, h, offset, buf) ==
    /\ status = OK
    /\ call[t].pc = 0
    /\ op = "create" => nCreated + InCall("create") < MaxFiles
    /\ op = "link" => nLinked + InCall("link") < MaxLinks
    /\ op \in {"write_at", "clear"} => h \in handles
    /\ call' = [call EXCEPT ![t] = [NoCall EXCEPT !.op = op, !.pc = 1, !.name = name,
                                                  !.new_name = new_name, !.ino = h,
                                                  !.off = offset, !.buf = buf]]
    /\ UNCHANGED <<inodes, disk, dataBitmap, inodeBitmap, status, handles, nCreated,
                   nLinked, efs_lock, held, dirty, fsGhost>>

\* self.fs.lock(): the spin mutex is taken when free
LkLockEfs(t) ==
    /\ Running(t)
    /\ Step(t) = "fs.lock"
    /\ IF efs_lock = t
       THEN /\ call' = [call EXCEPT ![t].spin = TRUE]
            /\ UNCHANGED efs_lock
       ELSE /\ efs_lock = 0
            /\ efs_lock' = t
            /\ call' = [call EXCEPT ![t].pc = @ + 1, ![t].nacq = @ + 1]
    /\ UNCHANGED <<inodes, disk, dataBitmap, inodeBitmap, status, handles, nCreated,
                   nLinked, held, dirty, fsGhost>>

\* read_disk_inode / modify_disk_inode: get_block_cache(self.block_id, ..).lock()
LkEnter(t) ==
    /\ Running(t)
    /\ Step(t) \in EnterSteps
    /\ LET target == CASE Step(t) \in {"read dir", "enter dir"} -> ROOT_INODE
                       [] Step(t) = "enter new" -> FirstFree(inodeBitmap)
                       [] OTHER -> call[t].ino
           got == lock_cache_entry(held, t, InodeKey(target))
       IN  IF Step(t) = "enter old_if_clear" /\ inodes[target].hard_link # 0
           THEN /\ call' = [call EXCEPT ![t].pc = @ + 1]
                /\ UNCHANGED held
           ELSE /\ got # "wait"
                /\ IF got = "spin"
                   THEN /\ call' = [call EXCEPT ![t].spin = TRUE]
                        /\ UNCHANGED held
                   ELSE /\ held' = [held EXCEPT ![t] =
                                      Append(@, [key |-> InodeKey(target),
                                                 modify |-> Step(t) # "read dir"])]
                        /\ call' = [call EXCEPT ![t].pc = @ + 1]
    /\ UNCHANGED <<inodes, disk, dataBitmap, inodeBitmap, status, handles, nCreated,
                   nLinked, efs_lock, dirty, fsGhost>>

\* self.find_inode_id(name, disk_inode) inside the closure on the directory
LkResolve(t) ==
    /\ Running(t)
    /\ Step(t) = "resolve"
    /\ \E id \in {find_inode_id(cur, ROOT_INODE, call[t].name)} :
           call' = [call EXCEPT ![t].pc = @ + 1,
                                ![t].ino = id,
                                ![t].abort = IF call[t].op = "create" THEN id # NONE
                                             ELSE id = NONE]
    /\ UNCHANGED <<inodes, disk, dataBitmap, inodeBitmap, status, handles, nCreated,
                   nLinked, efs_lock, held, dirty, fsGhost>>

\* the changes of the operation, made through the cache entries of the blocks it
\* touches while the closure on the inode runs
LkEffect(t) ==
    /\ Running(t)
    /\ Step(t) = "effect"
    /\ \E oc \in BOOLEAN :
       \E r \in {CASE call[t].op = "create" -> create(cur, ROOT_INODE, call[t].name)
                   [] call[t].op = "write_at" ->
                         write_at(cur, call[t].ino, call[t].off, call[t].buf)
                   [] call[t].op = "clear" -> [s |-> clear(cur, call[t].ino), ret |-> 0]
                   [] call[t].op = "link" ->
                         [s |-> link_locked(cur, ROOT_INODE, call[t].ino, call[t].new_name),
                          ret |-> SOME]
                   [] call[t].op = "unlink" ->
                         [s |-> unlink_locked(cur, ROOT_INODE, call[t].name, call[t].ino, oc),
                          ret |-> SOME]} :
       \E touched \in {Dirtied(cur, r.s)} :
           IF \E k \in touched : lock_cache_entry(held, t, k) = "spin"
           THEN /\ call' = [call EXCEPT ![t].spin = TRUE]
                /\ UNCHANGED <<inodes, disk, dataBitmap, inodeBitmap, status, handles,
                               nCreated, nLinked, dirty>>
           ELSE /\ SetFs(r.s)
                /\ dirty' = dirty \cup touched
                /\ call' = [call EXCEPT ![t].pc = @ + 1,
                                        ![t].mine = @ \cup touched,
                                        ![t].synced = FALSE,
                                        ![t].ret = Ret(r.s, r.ret)]
                /\ handles' = IF call[t].op = "create" THEN handles \cup {r.ret} ELSE handles
                /\ nCreated' = IF call[t].op = "create" THEN nCreated + 1 ELSE nCreated
                /\ nLinked' = IF call[t].op = "link" THEN nLinked + 1 ELSE nLinked
    /\ UNCHANGED <<efs_lock, held, fsGhost>>

\* the closure returns: the guard of the cache entry is dropped; modify() has set
\* the entry's modified flag
LkExit(t) ==
    /\ Running(t)
    /\ Step(t) = "exit"
    /\ IF held[t] = <<>>
       THEN /\ call' = [call EXCEPT ![t].pc = @ + 1]
            /\ UNCHANGED <<held, dirty>>
       ELSE LET top == held[t][Len(held[t])]
            IN  /\ held' = [held EXCEPT ![t] = SubSeq(@, 1, Len(@) - 1)]
                /\ dirty' = IF top.modify THEN dirty \cup {top.key} ELSE dirty
                /\ call' = [call EXCEPT
                              ![t].pc = IF call[t].abort /\ call[t].op = "create"
                                        THEN Len(Prog(call[t].op)) ELSE @ + 1,
                              ![t].mine = IF top.modify THEN @ \cup {top.key} ELSE @,
                              ![t].synced = IF top.modify THEN FALSE ELSE @]
    /\ UNCHANGED <<inodes, disk, dataBitmap, inodeBitmap, status, handles, nCreated,
                   nLinked, efs_lock, fsGhost>>

\* block_cache_sync_all(): locks every entry in turn and writes the dirty ones back
LkSyncAll(t) ==
    /\ Running(t)
    /\ Step(t) = "sync_all"
    /\ IF held[t] # <<>>
       THEN /\ call' = [call EXCEPT ![t].spin = TRUE]
            /\ UNCHANGED dirty
       ELSE /\ dirty' = block_cache_sync_all(dirty)
            /\ call' = [call EXCEPT ![t].pc = @ + 1, ![t].synced = (efs_lock = t)]
    /\ UNCHANGED <<inodes, disk, dataBitmap, inodeBitmap, status, handles, nCreated,
                   nLinked, efs_lock, held, fsGhost>>

\* the EFS guard is dropped: at the end of self.find inside link and unlink, and
\* when the operation returns
LkDrop(t) ==
    /\ Running(t)
    /\ Step(t) = "drop"
    /\ efs_lock' = IF efs_lock = t THEN 0 ELSE efs_lock
    /\ call' = [call EXCEPT ![t] =
                  IF @.pc = Len(Prog(@.op)) \/ @.abort
                  THEN [NoCall EXCEPT !.op = call[t].op, !.nacq = call[t].nacq,
                                      !.mine = call[t].mine, !.synced = call[t].synced,
                                      !.left = call[t].mine \cap dirty,
                                      !.ret = IF call[t].op = "find" THEN call[t].ino
                                              ELSE call[t].ret]
                  ELSE [@ EXCEPT !.pc = @ + 1]]
    /\ UNCHANGED <<inodes, disk, dataBitmap, inodeBitmap, status, handles, nCreated,
                   nLinked, held, dirty, fsGhost>>

\* the root directory holds the files whose inodes share the root's inode-table block
InitLock ==
    /\ inodes = Preload(INODES_PER_BLOCK - 1).inodes
    /\ disk = Preload(INODES_PER_BLOCK - 1).disk
    /\ dataBitmap = Preload(INODES_PER_BLOCK - 1).dataBitmap
    /\ inodeBitmap = Preload(INODES_PER_BLOCK - 1).inodeBitmap
    /\ status = OK
    /\ handles = {}
    /\ named = PreloadNamed(INODES_PER_BLOCK - 1)
    /\ nCreated = 0
    /\ nLinked = 0
    /\ threads = [t \in Threads |-> Idle]
    /\ lastOp = NoOp
    /\ ProcInit
    /\ LockInit

LkNext(t) ==
    \/ LkLockEfs(t)
    \/ LkEnter(t)
    \/ LkResolve(t)
    \/ LkEffect(t)
    \/ LkExit(t)
    \/ LkSyncAll(t)
    \/ LkDrop(t)

NextLock ==
    \/ \E t \in Threads, name \in Names : LkBegin(t, "find", name, 0, NONE, 0, <<>>)
    \/ \E t \in Threads, name \in Names : LkBegin(t, "create", name, 0, NONE, 0, <<>>)
    \/ \E t \in Threads, old_name \in Names, new_name \in Names :
          LkBegin(t, "link", old_name, new_name, NONE, 0, <<>>)
    \/ \E t \in Threads, name \in Names : LkBegin(t, "unlink", name, 0, NONE, 0, <<>>)
    \/ \E t \in Threads, h \in handles, buf \in SpecBufs :
          LkBegin(t, "write_at", 0, 0, h, 0, buf)
    \/ \E t \in Threads, h \in handles : LkBegin(t, "clear", 0, 0, h, 0, <<>>)
    \/ \E t \in Threads : LkLockEfs(t)
    \/ \E t \in Threads : LkEnter(t)
    \/ \E t \in Threads : LkResolve(t)
    \/ \E t \in Threads : LkEffect(t)
    \/ \E t \in Threads : LkExit(t)
    \/ \E t \in Threads : LkSyncAll(t)
    \/ \E t \in Threads : LkDrop(t)

SpecLock == InitLock /\ [][NextLock]_vars

\* threads run in parallel: a thread inside an operation keeps taking steps, and a
\* thread spinning on the EFS mutex gets it if the mutex is free again and again
SpecLockFair ==
    /\ SpecLock
    /\ \A t \in Threads : WF_vars(LkNext(t)) /\ SF_vars(LkLockEfs(t))

\* ------------------------------------------------------ process: sys_waitpid
\* usize::MAX; the largest integer of the model stands for 2^64 - 1
USIZE_MAX == 2147483647
\* pid as usize: a negative isize wraps to the top of the usize range
AsUsize(i) == IF i >= 0 THEN i ELSE USIZE_MAX - ((-i) - 1)

\* pid == -1 || pid as usize == p.getpid()
Matches(pid, p) == pid = -1 \/ AsUsize(pid) = p.pid

\* Vec::remove(idx), idx counted from 1
RemoveAt(q, idx) == SubSeq(q, 1, idx - 1) \o SubSeq(q, idx + 1, Len(q))

\* sys_waitpid that takes the first matching child, zombie or not
sys_waitpid_AnyChild(ch, mem, pid) ==
    LET matching == {i \in 1..Len(ch) : Matches(pid, ch[i])}
    IN  IF matching = {}
        THEN [children |-> ch, mem |-> mem, ret |-> -1, status |-> OK]
        ELSE [children |-> RemoveAt(ch, Min(matching)), mem |-> ch[Min(matching)].exit_code,
              ret |-> ch[Min(matching)].pid, status |-> OK]

\* sys_waitpid(pid, exit_code_ptr) on the children list ch, with mem the i32 behind
\* exit_code_ptr: [children, mem, ret, status]
sys_waitpid(ch, mem, pid) ==
    LET matching == {i \in 1..Len(ch) : Matches(pid, ch[i])}
        zombies  == {i \in matching : ch[i].zombie}
    IN  IF matching = {}
        THEN [children |-> ch, mem |-> mem, ret |-> -1, status |-> OK]
        ELSE IF zombies = {}
        THEN [children |-> ch, mem |-> mem, ret |-> -2, status |-> OK]
        ELSE LET idx   == Min(zombies)
                 child == ch[idx]
             IN  IF child.refs # 1
                 THEN [children |-> RemoveAt(ch, idx), mem |-> mem, ret |-> NONE,
                       status |-> "assertion failed: Arc::strong_count(&child) == 1"]
                 ELSE [children |-> RemoveAt(ch, idx), mem |-> child.exit_code,
                       ret |-> child.pid, status |-> OK]

\* exit codes the children exit with, and the pid arguments of sys_waitpid: no
\* child (-2 and a pid never handed out), any child (-1), each child
ExitCodes == {0, 3}
WaitPids == {-2, -1} \cup (1..(MaxChildren + 1))

fileVars == <<inodes, disk, dataBitmap, inodeBitmap, handles, named, nCreated, nLinked,
              threads, lastOp, lockVars, fdVars>>

\* sys_fork: the new task is pushed on the children list; the list and the
\* scheduler each hold a reference to it
SysFork ==
    /\ status = OK
    /\ next_pid <= MaxChildren
    /\ children' = Append(children, [pid |-> next_pid, zombie |-> FALSE,
                                     exit_code |-> 0, refs |-> 2])
    /\ next_pid' = next_pid + 1
    /\ lastSys' = [op |-> "fork", pid |-> 0, ret |-> next_pid]
    /\ UNCHANGED <<exit_code_mem, status, fileVars>>

\* sys_exit(exit_code) of child i: it becomes a zombie, the scheduler drops it
ChildExit(i, exit_code) ==
    /\ status = OK
    /\ ~children[i].zombie
    /\ children' = [children EXCEPT ![i] = [@ EXCEPT !.zombie = TRUE,
                                                     !.exit_code = exit_code, !.refs = 1]]
    /\ lastSys' = [op |-> "exit", pid |-> children[i].pid, ret |-> exit_code]
    /\ UNCHANGED <<next_pid, exit_code_mem, status, fileVars>>

SysWaitpid(pid) ==
    /\ status = OK
    /\ \E r \in {sys_waitpid(children, exit_code_mem, pid)} :
           /\ children' = r.children
           /\ exit_code_mem' = r.mem
           /\ status' = r.status
           /\ lastSys' = [op |-> "waitpid", pid |-> pid, ret |-> r.ret]
    /\ UNCHANGED <<next_pid, fileVars>>

NextWait ==
    \/ SysFork
    \/ \E i \in 1..Len(children), exit_code \in ExitCodes : ChildExit(i, exit_code)
    \/ \E pid \in WaitPids : SysWaitpid(pid)

SpecWait == InitIO /\ [][NextWait]_vars

\* ------------------------------------------------ link and unlink as syscalls
\* linkat and unlinkat of the kernel's fs module: link and unlink of the root inode
linkat(s, old_name, new_name) == link(s, ROOT_INODE, old_name, new_name)
unlinkat(s, name, oc) == unlink(s, ROOT_INODE, name, oc)

\* sys_linkat that hands equal names on to linkat
sys_linkat_NoSameCheck(s, old_name, new_name) ==
    LET r == linkat(s, old_name, new_name)
    IN  [s |-> r.s, ret |-> IF r.ret # NONE THEN 0 ELSE -1]

\* sys_linkat: [s, ret]
sys_linkat(s, old_name, new_name) ==
    IF new_name = old_name THEN [s |-> s, ret |-> -1]
    ELSE LET r == linkat(s, old_name, new_name)
         IN  [s |-> r.s, ret |-> IF r.ret # NONE THEN 0 ELSE -1]

\* sys_unlinkat: [s, ret]
sys_unlinkat(s, name, oc) ==
    LET r == unlinkat(s, name, oc)
    IN  [s |-> r.s, ret |-> IF r.ret # NONE THEN 0 ELSE -1]

SysLinkat(t, old_name, new_name) ==
    /\ Ready(t)
    /\ nLinked < MaxLinks
    /\ \E r \in {sys_linkat(cur, old_name, new_name)},
          ino \in {find_inode_id(cur, ROOT_INODE, old_name)} :
           /\ SetFs(r.s)
           /\ named' = IF r.ret # 0 \/ r.s.status # OK THEN named
                       ELSE named (+) SetToBag({<<new_name, ino>>})
           /\ nLinked' = IF r.ret # 0 THEN nLinked ELSE nLinked + 1
           /\ lastOp' = [NoOp EXCEPT !.op = "sys_linkat", !.t = t, !.name = old_name,
                                     !.new_name = new_name, !.ino = ino,
                                     !.ret = Ret(r.s, r.ret),
                                     !.pre = [PreOf(ino) EXCEPT !.resolved = ino]]
    /\ UNCHANGED <<handles, nCreated, threads>>
    /\ UNCHANGED otherVars

SysUnlinkat(t, name) ==
    /\ Ready(t)
    /\ \E oc \in BOOLEAN :
       \E r \in {sys_unlinkat(cur, name, oc)},
          ino \in {find_inode_id(cur, ROOT_INODE, name)} :
           /\ SetFs(r.s)
           /\ named' = IF r.ret # 0 \/ r.s.status # OK THEN named
                       ELSE named (-) SetToBag({<<name, ino>>})
           /\ lastOp' = [NoOp EXCEPT !.op = "sys_unlinkat", !.t = t, !.name = name,
                                     !.ino = ino, !.ret = Ret(r.s, r.ret),
                                     !.pre = [PreOf(ino) EXCEPT !.resolved = ino]]
    /\ UNCHANGED <<handles, nCreated, nLinked, threads>>
    /\ UNCHANGED otherVars

NextSys ==
    \/ \E name \in Names : Create(1, name)
    \/ \E old_name \in Names, new_name \in Names : SysLinkat(1, old_name, new_name)
    \/ \E name \in Names : SysUnlinkat(1, name)
    \/ \E h \in handles, offset \in SpecOffsets, buf \in SpecBufs : WriteAt(1, h, offset, buf)

SpecSys == Init /\ [][NextSys]_vars

\* ------------------------------------------------------------ the fd table
\* the longest fd table the task is let grow to
MaxFds == 5
Fds == 0..MaxFds

\* TaskControlBlockInner::alloc_fd: the lowest empty slot, or a new one at the end
alloc_fd(tbl) ==
    IF \E i \in 1..Len(tbl) : tbl[i] = NONE
    THEN [tbl |-> tbl, fd |-> Min({i \in 1..Len(tbl) : tbl[i] = NONE}) - 1]
    ELSE [tbl |-> Append(tbl, NONE), fd |-> Len(tbl)]

\* open_file of an existing file, read-only: the inode the name resolves to, or NONE
open_file(s, path) == find(s, ROOT_INODE, path).ret

\* File::stat of an open file
FileStat(s, file) ==
    IF file = STDIO THEN Stat_new(0, StatMode_NULL, 0)
    ELSE LET st == stat(s, file)
         IN  Stat_new(st[1], IF st[3] = "Directory" THEN StatMode_DIR ELSE StatMode_FILE,
                      st[2])

\* sys_open: [tbl, ret]
sys_open(s, tbl, path) ==
    IF open_file(s, path) # NONE
    THEN LET a == alloc_fd(tbl)
         IN  [tbl |-> [a.tbl EXCEPT ![a.fd + 1] = open_file(s, path)], ret |-> a.fd]
    ELSE [tbl |-> tbl, ret |-> -1]

\* sys_close: [tbl, ret]
sys_close(tbl, fd) ==
    IF fd >= Len(tbl) THEN [tbl |-> tbl, ret |-> -1]
    ELSE IF tbl[fd + 1] = NONE THEN [tbl |-> tbl, ret |-> -1]
    ELSE [tbl |-> [tbl EXCEPT ![fd + 1] = NONE], ret |-> 0]

\* sys_dup: [tbl, ret]
sys_dup(tbl, fd) ==
    IF fd >= Len(tbl) THEN [tbl |-> tbl, ret |-> -1]
    ELSE IF tbl[fd + 1] = NONE THEN [tbl |-> tbl, ret |-> -1]
    ELSE LET a == alloc_fd(tbl)
         IN  [tbl |-> [a.tbl EXCEPT ![a.fd + 1] = tbl[fd + 1]], ret |-> a.fd]

\* sys_fstat, st within one page: [st, ret, status]
sys_fstat(s, tbl, st, fd) ==
    IF fd >= Len(tbl) THEN [st |-> st, ret |-> -1, status |-> OK]
    ELSE IF tbl[fd + 1] = NONE
         THEN [st |-> st, ret |-> NONE,
               status |-> "called Option::unwrap() on a None value"]
         ELSE [st |-> FileStat(s, tbl[fd + 1]), ret |-> 0, status |-> OK]

\* what the fd syscalls leave alone
fsVars == <<inodes, disk, dataBitmap, inodeBitmap, handles, named, nCreated, nLinked,
            threads, lastOp, procVars, lockVars>>

\* whether alloc_fd may still take a slot
CanAllocFd == Len(alloc_fd(fd_table).tbl) <= MaxFds

SysOpen(path) ==
    /\ status = OK
    /\ CanAllocFd
    /\ \E r \in {sys_open(cur, fd_table, path)} :
           /\ fd_table' = r.tbl
           /\ lastFd' = [op |-> "open", fd |-> NONE, ret |-> r.ret]
    /\ UNCHANGED <<stat_mem, status, fsVars>>

SysClose(fd) ==
    /\ status = OK
    /\ \E r \in {sys_close(fd_table, fd)} :
           /\ fd_table' = r.tbl
           /\ lastFd' = [op |-> "close", fd |-> fd, ret |-> r.ret]
    /\ UNCHANGED <<stat_mem, status, fsVars>>

SysDup(fd) ==
    /\ status = OK
    /\ CanAllocFd
    /\ \E r \in {sys_dup(fd_table, fd)} :
           /\ fd_table' = r.tbl
           /\ lastFd' = [op |-> "dup", fd |-> fd, ret |-> r.ret]
    /\ UNCHANGED <<stat_mem, status, fsVars>>

SysFstat(fd) ==
    /\ status = OK
    /\ \E r \in {sys_fstat(cur, fd_table, stat_mem, fd)} :
           /\ stat_mem' = r.st
           /\ status' = r.status
           /\ lastFd' = [op |-> "fstat", fd |-> fd, ret |-> r.ret]
    /\ UNCHANGED <<fd_table, fsVars>>

NextFd ==
    \/ \E name \in Names : Create(1, name)
    \/ \E path \in Names : SysOpen(path)
    \/ \E fd \in Fds : SysClose(fd)
    \/ \E fd \in Fds : SysDup(fd)
    \/ \E fd \in Fds : SysFstat(fd)

SpecFd == Init /\ [][NextFd]_vars

\* ------------------------------------------------------------------- claims
UserOps == {"find", "create", "link", "unlink"}

\* the slots of the root directory, as <<name, inode>> pairs in on-disk order
RootEntries ==
    [k \in 1..file_count(cur, ROOT_INODE) |->
        <<DirEntryName(DirEntryAt(cur, ROOT_INODE, k - 1)),
          DirEntryInodeNumber(DirEntryAt(cur, ROOT_INODE, k - 1))>>]

\* C1: single-threaded find, create, link and unlink on the root directory return a
\* result or signal absence and never panic; unlink returns present whenever the
\* name resolves, whatever the directory size.
C1_UserOpsNeverPanic ==
    lastOp.op \in UserOps => status \in {OK, HANG}

SeqToBag(q) == [e \in SeqToSet(q) |-> Cardinality({k \in 1..Len(q) : q[k] = e})]

\* cells of the root directory's blocks at or beyond its size that are not zero
RootCellsBeyondSize ==
    {c \in DOMAIN disk :
        \E i \in 0..(data_blocks(inodes[ROOT_INODE].size) - 1) :
            /\ c[1] = get_block_id(inodes[ROOT_INODE], i)
            /\ i * BLOCK_SZ + c[2] >= inodes[ROOT_INODE].size}

\* C2: after any sequence of create, link and unlink that returned, the root
\* directory's size is DIRENT_SZ times the number of currently named entries, and
\* exactly those entries fill the slots of [0, size): no zeroed or stale slot inside,
\* nothing left behind it.
C2_DirectoryCompact ==
    status = OK =>
        /\ inodes[ROOT_INODE].size = DIRENT_SZ * BagCardinality(named)
        /\ SeqToBag(RootEntries) = named
        /\ \A k \in 1..Len(RootEntries) : RootEntries[k][1] # 0
        /\ RootCellsBeyondSize = {}

\* an unlink returned after a create and a link had returned, and entries remain
C2_Witness ==
    /\ status = OK
    /\ lastOp.op = "unlink" /\ lastOp.ret = SOME
    /\ nCreated > 0 /\ nLinked > 0
    /\ Len(RootEntries) > 0

\* directory entries referring to inode ino
LinksTo(ino) == Cardinality({k \in 1..Len(RootEntries) : RootEntries[k][2] = ino})

\* C3: after any sequence of create, link and unlink that returned, every inode some
\* directory entry refers to has hard_link equal to the number of entries referring
\* to it.
C3_LinkAccounting ==
    status = OK =>
        \A ino \in inodeBitmap : LinksTo(ino) > 0 => inodes[ino].hard_link = LinksTo(ino)

\* a file that was linked once and has lost one of its two names again
C3_Witness ==
    /\ status = OK
    /\ lastOp.op = "unlink" /\ lastOp.ret = SOME
    /\ nLinked > 0
    /\ LinksTo(lastOp.ino) = 1 /\ inodes[lastOp.ino].hard_link = 1

\* every allocated data block is owned by exactly one inode, once
OwnedBlocks == UNION {SeqToSet(inodes[i].blocks) : i \in inodeBitmap}
NoPhantomBlocks ==
    /\ dataBitmap = OwnedBlocks
    /\ \A i \in inodeBitmap : Cardinality(SeqToSet(inodes[i].blocks)) = Len(inodes[i].blocks)
    /\ \A i, j \in inodeBitmap :
          i # j => SeqToSet(inodes[i].blocks) \cap SeqToSet(inodes[j].blocks) = {}

\* C4: when unlink returns after removing the last entry of an inode (hard_link 0),
\* every data and index block the inode owned is free: total_blocks(size) fewer blocks
\* are allocated and none is allocated without an owner; when hard_link stays above
\* 0 the inode keeps its size and blocks and no block is freed.
C4_UnlinkReclaims ==
    (status = OK /\ lastOp.op = "unlink" /\ lastOp.ret = SOME) =>
        /\ NoPhantomBlocks
        /\ IF inodes[lastOp.ino].hard_link = 0
           THEN /\ Cardinality(dataBitmap) = lastOp.pre.used - total_blocks(lastOp.pre.size)
                /\ SeqToSet(lastOp.pre.blocks) \cap dataBitmap = {}
                /\ inodes[lastOp.ino].blocks = <<>>
                /\ inodes[lastOp.ino].size = 0
           ELSE /\ Cardinality(dataBitmap) = lastOp.pre.used
                /\ inodes[lastOp.ino].blocks = lastOp.pre.blocks
                /\ inodes[lastOp.ino].size = lastOp.pre.size

\* unlink returned after removing the last name of a file that had an index block
C4_Witness ==
    /\ status = OK /\ lastOp.op = "unlink" /\ lastOp.ret = SOME
    /\ inodes[lastOp.ino].hard_link = 0
    /\ lastOp.pre.size > INODE_DIRECT_COUNT * BLOCK_SZ
    /\ Len(lastOp.pre.blocks) = data_blocks(lastOp.pre.size) + 1

\* C5: operations of several threads are linearizable; in particular a link that
\* returns present acted on a snapshot in which old_name resolved (to the inode it
\* linked) and that inode had not been reclaimed by a concurrent unlink.
C5_LinkActsOnLiveSnapshot ==
    (lastOp.op = "link" /\ lastOp.ret = SOME) =>
        /\ lastOp.pre.resolved = lastOp.ino
        /\ lastOp.pre.hard_link >= 1

\* C6: two threads unlinking the same name never reach the 'no such file' panic of
\* remove_dir_entry: one unlink returns present, the other absent.
C6_UnlinkNeverNoSuchFile == status # "no such file"

\* C7: write_at(offset, bytes) returns the length of bytes, and a read_at(offset, buf)
\* that follows it with a buffer of that length returns the length and those bytes.
C7_WriteReadRoundTrip ==
    (status = OK /\ lastOp.op = "write_at") =>
        /\ lastOp.ret = Len(lastOp.buf)
        /\ read_at(cur, lastOp.ino, lastOp.off, Len(lastOp.buf)) = lastOp.buf
        /\ Len(read_at(cur, lastOp.ino, lastOp.off, Len(lastOp.buf))) = Len(lastOp.buf)

\* a write of two bytes across the end of the first block of a file that had data
C7_Witness ==
    /\ status = OK /\ lastOp.op = "write_at"
    /\ lastOp.off = BLOCK_SZ - 1 /\ Len(lastOp.buf) >= 2
    /\ lastOp.pre.size > 0

NoDupNames ==
    \A j, k \in 1..Len(RootEntries) : RootEntries[j][1] = RootEntries[k][1] => j = k

\* C8: create(name) on a directory with no entry called name takes an inode id that
\* was free, leaves the new DiskInode a File with hard_link 1 and size 0, appends
\* exactly the entry (name, id) at the end of the directory and returns a handle to
\* id; find(name) then returns id and ls() contains name.
C8_CreateAppends ==
    [][lastOp'.op = "create" =>
        /\ (find_inode_id(cur, ROOT_INODE, lastOp'.name) = NONE) <=> (lastOp'.ret # NONE)
        /\ lastOp'.ret # NONE =>
              /\ lastOp'.ret \notin inodeBitmap
              /\ inodeBitmap' = inodeBitmap \cup {lastOp'.ret}
              /\ inodes'[lastOp'.ret] =
                    [size |-> 0, hard_link |-> 1, type |-> "File", blocks |-> <<>>]
              /\ RootEntries' = Append(RootEntries, <<lastOp'.name, lastOp'.ret>>)
              /\ find(cur', ROOT_INODE, lastOp'.name).ret = lastOp'.ret
              /\ \E k \in 1..Len(ls(cur', ROOT_INODE)) :
                    ls(cur', ROOT_INODE)[k] = lastOp'.name
              /\ stat(cur', lastOp'.ret) = <<lastOp'.ret, 1, "File">>]_vars

\* create returned a handle to the entry now last in the directory
C8_Witness ==
    /\ status = OK /\ lastOp.op = "create" /\ lastOp.ret # NONE
    /\ RootEntries[Len(RootEntries)] = <<lastOp.name, lastOp.ret>>

\* C9: create(name) returns absent when the directory holds an entry called name, and
\* then leaves the directory, both bitmaps and every hard_link as they were; no
\* create turns a directory without duplicate names into one with duplicates.
C9_CreateCollision ==
    [][lastOp'.op = "create" =>
        /\ find_inode_id(cur, ROOT_INODE, lastOp'.name) # NONE =>
              /\ lastOp'.ret = NONE
              /\ UNCHANGED <<inodes, disk, dataBitmap, inodeBitmap, status>>
        /\ NoDupNames => NoDupNames']_vars

\* create returned absent for a name the directory holds
C9_Witness ==
    /\ lastOp.op = "create" /\ lastOp.ret = NONE
    /\ find_inode_id(cur, ROOT_INODE, lastOp.name) # NONE

\* C10: link(old_name, new_name) returns absent and changes nothing when old_name
\* does not resolve; when it resolves, link returns present, appends the entry
\* (new_name, inode of old_name) at the end of the directory and raises that inode's
\* hard_link by 1, so that find(new_name).stat() reports that inode and link count.
C10_LinkAppends ==
    (lastOp.op = "link" /\ lastOp.pre.resolved # NONE) =>
        /\ status = OK /\ lastOp.ret = SOME
        /\ RootEntries[Len(RootEntries)] = <<lastOp.new_name, lastOp.ino>>
        /\ inodes[lastOp.ino].hard_link = lastOp.pre.hard_link + 1
        /\ find_inode_id(cur, ROOT_INODE, lastOp.new_name) = lastOp.ino
        /\ stat(cur, find_inode_id(cur, ROOT_INODE, lastOp.new_name))
              = <<lastOp.ino, lastOp.pre.hard_link + 1, "File">>

\* C11: unlink(name) of a resolving name returns present and removes the first entry
\* called name by swap-with-last-then-truncate: the directory is one entry shorter,
\* the freed slot holds the entry that was last, every other entry stays where it
\* was, name resolves no more unless a second entry had it, and the inode's
\* hard_link is one less; unlink of a name that does not resolve returns absent and
\* changes nothing.
C11_UnlinkSwapsLast ==
    [][lastOp'.op = "unlink" =>
        LET name == lastOp'.name
            hits == SlotsNamed(cur, ROOT_INODE, name)
            fc   == file_count(cur, ROOT_INODE)
        IN  IF hits = {}
            THEN /\ lastOp'.ret = NONE
                 /\ UNCHANGED <<inodes, disk, dataBitmap, inodeBitmap, status>>
            ELSE LET index == Min(hits)
                     ino   == DirEntryInodeNumber(DirEntryAt(cur, ROOT_INODE, index))
                 IN  /\ status' = OK
                     /\ lastOp'.ret = SOME
                     /\ file_count(cur', ROOT_INODE) = fc - 1
                     /\ \A i \in 0..(fc - 2) :
                           DirEntryAt(cur', ROOT_INODE, i) =
                              IF i = index THEN DirEntryAt(cur, ROOT_INODE, fc - 1)
                              ELSE DirEntryAt(cur, ROOT_INODE, i)
                     /\ Cardinality(hits) = 1 => find_inode_id(cur', ROOT_INODE, name) = NONE
                     /\ inodes'[ino].hard_link = inodes[ino].hard_link - 1]_vars

\* C13: after write_at(o, b) on an inode of size s the size is max(s, o + |b|); a
\* write ending at or beyond s grows the file to o + |b|, a write ending before s
\* allocates no block and leaves the size as it was.
C13_WriteSize ==
    (status = OK /\ lastOp.op = "write_at") =>
        /\ inodes[lastOp.ino].size = Max({lastOp.pre.size, lastOp.off + lastOp.len})
        /\ lastOp.off + lastOp.len >= lastOp.pre.size =>
              inodes[lastOp.ino].size = lastOp.off + lastOp.len
        /\ lastOp.off + lastOp.len < lastOp.pre.size =>
              /\ inodes[lastOp.ino].size = lastOp.pre.size
              /\ inodes[lastOp.ino].blocks = lastOp.pre.blocks
              /\ Cardinality(dataBitmap) = lastOp.pre.used

\* a write of some bytes that ends before the end of the file
C13_Witness ==
    /\ status = OK /\ lastOp.op = "write_at"
    /\ lastOp.len > 0
    /\ lastOp.off + lastOp.len < lastOp.pre.size

\* C14: clear() on an inode of any reachable size sets its size to 0 and returns
\* exactly total_blocks(old size) blocks to the data bitmap, each allocated before
\* the call; the assertion of clearInternal never fails; and clear after a write_at
\* that grew an empty file leaves the data bitmap as it was before the write.
C14_ClearReturnsAllBlocks ==
    [][/\ lastOp'.op = "clear" =>
            LET h == lastOp'.ino
                freed == SeqToSet(inodes[h].blocks)
            IN  /\ status' = OK
                /\ inodes'[h].size = 0
                /\ Len(inodes[h].blocks) = total_blocks(inodes[h].size)
                /\ Cardinality(freed) = total_blocks(inodes[h].size)
                /\ freed \subseteq dataBitmap
                /\ dataBitmap' = dataBitmap \ freed
       /\ (lastOp'.op = "write_at" /\ inodes[lastOp'.ino].size = 0) =>
            /\ status' = OK
            /\ clear(cur', lastOp'.ino).status = OK
            /\ clear(cur', lastOp'.ino).dataBitmap = dataBitmap]_vars

\* clear returned on a file that had grown behind its direct blocks
C14_Witness ==
    /\ status = OK /\ lastOp.op = "clear"
    /\ lastOp.pre.size > INODE_DIRECT_COUNT * BLOCK_SZ
    /\ Len(lastOp.pre.blocks) = data_blocks(lastOp.pre.size) + 1
    /\ inodes[lastOp.ino].size = 0

\* C20: link(old_name, new_name) with a resolving old_name returns present also when
\* an entry called new_name exists, and then one more entry has that name; with
\* duplicate names find(name) and unlink(name) both act on the first entry called
\* name in on-disk order: the entry unlink removes is the one find resolves, and the
\* inode of that entry is the one whose hard_link it decrements.
C20_DuplicateNames ==
    [][/\ (lastOp'.op = "link" /\ find_inode_id(cur, ROOT_INODE, lastOp'.name) # NONE) =>
            /\ status' = OK
            /\ lastOp'.ret = SOME
            /\ Cardinality(SlotsNamed(cur', ROOT_INODE, lastOp'.new_name)) =
                  Cardinality(SlotsNamed(cur, ROOT_INODE, lastOp'.new_name)) + 1
       /\ (lastOp'.op = "unlink" /\ status' = OK
             /\ Cardinality(SlotsNamed(cur, ROOT_INODE, lastOp'.name)) > 1) =>
            LET hits  == SlotsNamed(cur, ROOT_INODE, lastOp'.name)
                first == Min(hits)
                ino   == DirEntryInodeNumber(DirEntryAt(cur, ROOT_INODE, first))
                fc    == file_count(cur, ROOT_INODE)
            IN  /\ find(cur, ROOT_INODE, lastOp'.name).ret = ino
                /\ lastOp'.ret = SOME
                /\ DirEntryAt(cur', ROOT_INODE, first) = DirEntryAt(cur, ROOT_INODE, fc - 1)
                /\ \A i \in (hits \ {first, fc - 1}) :
                      DirEntryAt(cur', ROOT_INODE, i) = DirEntryAt(cur, ROOT_INODE, i)
                /\ inodes'[ino].hard_link = inodes[ino].hard_link - 1
                /\ \A j \in inodeBitmap \ {ino} :
                      inodes'[j].hard_link = inodes[j].hard_link]_vars

\* C15: sys_waitpid(pid, ptr) returns -1 and changes nothing when no child matches
\* pid (-1 matches every child); returns -2 and changes nothing when a child matches
\* but no matching child is a zombie; otherwise it removes exactly one matching
\* zombie child from the children list, stores that child's exit code through ptr
\* and returns that child's pid.
C15_Waitpid ==
    [][lastSys'.op = "waitpid" =>
        LET pid      == lastSys'.pid
            matching == {i \in 1..Len(children) : pid = -1 \/ children[i].pid = pid}
            zombies  == {i \in matching : children[i].zombie}
        IN  /\ status' = OK
            /\ IF matching = {}
               THEN lastSys'.ret = -1 /\ UNCHANGED <<children, exit_code_mem>>
               ELSE IF zombies = {}
               THEN lastSys'.ret = -2 /\ UNCHANGED <<children, exit_code_mem>>
               ELSE \E i \in zombies :
                       /\ children' = RemoveAt(children, i)
                       /\ exit_code_mem' = children[i].exit_code
                       /\ lastSys'.ret = children[i].pid]_vars

\* waitpid(-1) reaped a zombie that exited with a non-zero code while another
\* child was still running
C15_Witness ==
    /\ lastSys.op = "waitpid" /\ lastSys.pid = -1 /\ lastSys.ret >= 1
    /\ exit_code_mem = 3
    /\ \E i \in 1..Len(children) : ~children[i].zombie /\ children[i].pid < lastSys.ret

\* the operations that change the filesystem and have returned a result
ReturnedChange(t) ==
    /\ Returned(t)
    /\ \/ call[t].op \in {"write_at", "clear"}
       \/ call[t].op \in {"create", "link", "unlink"} /\ call[t].ret # NONE

\* C12: whenever write_at, clear, or a successful create, link or unlink returns,
\* sync_all has run after the operation's last modification of a cached block and
\* while the EFS lock was held, and no cache entry the operation dirtied is dirty
\* at the moment of return.
C12_SyncedAtReturn ==
    \A t \in Threads : ReturnedChange(t) => call[t].synced /\ call[t].left = {}

\* an unlink has returned present after changing inode-table, bitmap and data blocks
C12_Witness ==
    \E t \in Threads :
        /\ ReturnedChange(t) /\ call[t].op = "unlink"
        /\ \E k \in call[t].mine : k[1] = "inode"
        /\ \E k \in call[t].mine : k[1] = "data"
        /\ <<"dbitmap", 0>> \in call[t].mine

\* C16: every VFS operation acquires the EFS mutex exactly once per call and holds it
\* from its name resolution through its last mutation and sync_all: no call takes the
\* mutex a second time.
C16_EfsLockedOnce ==
    \A t \in Threads : call[t].nacq <= 1

\* C17: while an operation holds a cache-entry lock it takes a second one only for
\* another block, so no operation spins forever on a lock it holds, wherever the
\* inodes lie in the inode table.
C17_NoSelfDeadlock ==
    \A t \in Threads : ~call[t].spin

\* C18: no thread requests the EFS mutex while it holds a cache-entry lock or the EFS
\* mutex itself, and every thread waiting for the EFS mutex eventually acquires it.
C18_EfsEventuallyAcquired ==
    /\ [](\A t \in Threads :
            (call[t].pc > 0 /\ Step(t) = "fs.lock") => efs_lock # t /\ held[t] = <<>>)
    /\ \A t \in Threads :
          (call[t].pc > 0 /\ Step(t) = "fs.lock") ~> (efs_lock = t)

\* C19: at most one read or modify closure runs on a cache entry at a time: no entry
\* lock is held twice, by two threads or twice by one.
C19_OneClosurePerEntry ==
    \A t, u \in Threads : \A i \in 1..Len(held[t]), j \in 1..Len(held[u]) :
        held[t][i].key = held[u][j].key => t = u /\ i = j

\* the closure on old_inode runs inside the closure on the root, on another block,
\* while another thread is inside a call
C19_Witness ==
    \E t, u \in Threads :
        /\ Len(held[t]) = 2 /\ call[t].op = "link"
        /\ u # t /\ call[u].pc > 0

\* C21: decrease_size(new_size) returns, with nothing but the inode's size changed
\* (lowered to new_size, no block freed), exactly when new_size <= size and
\* total_blocks(new_size) = total_blocks(size); in every other case it panics.
C21_DecreaseSize ==
    [][lastOp'.op = "decrease_size" =>
          LET ino == lastOp'.ino
              new_size == lastOp'.off
              fits == /\ new_size <= inodes[ino].size
                      /\ total_blocks(new_size) = total_blocks(inodes[ino].size)
          IN  /\ (status' = OK) <=> fits
              /\ status' # HANG
              /\ fits => /\ inodes' = [inodes EXCEPT ![ino].size = new_size]
                         /\ UNCHANGED <<disk, dataBitmap, inodeBitmap>>]_vars

\* a file of several bytes was truncated to fewer bytes within the same block
C21_Witness ==
    /\ lastOp.op = "decrease_size"
    /\ status = OK
    /\ lastOp.off < lastOp.pre.size
    /\ lastOp.off > 0
    /\ inodes[lastOp.ino].size = lastOp.off
    /\ inodes[lastOp.ino].blocks = lastOp.pre.blocks

\* C22: in every reachable state unlink decrements a hard_link only when it is at
\* least 1: the u32 subtraction never overflows (no panic of the checked build, no
\* wrap to the largest u32 in the unchecked one).
C22_HardLinkNeverWraps ==
    /\ status # "attempt to subtract with overflow"
    /\ \A ino \in inodeBitmap : inodes[ino].hard_link # U32_MAX

\* C23: across create, link and unlink no inode-bitmap slot is ever freed, and a
\* create that returns a handle returns an inode id that no earlier create returned
\* and that was not allocated before: a handle to a file that lost its last name
\* never refers to a file created later.
C23_InodeIdsDistinct ==
    [][/\ inodeBitmap \subseteq inodeBitmap'
       /\ nCreated' = nCreated + 1 =>
              /\ lastOp'.ret \notin inodeBitmap
              /\ lastOp'.ret \notin handles
              /\ inodeBitmap' = inodeBitmap \cup {lastOp'.ret}]_vars

\* a create returned after the last name of an older file was unlinked: the older
\* inode keeps its slot and the new file has another id
C23_Witness ==
    /\ status = OK
    /\ lastOp.op = "create" /\ lastOp.ret # NONE
    /\ \E ino \in inodeBitmap \ {ROOT_INODE, lastOp.ret} :
           /\ LinksTo(ino) = 0
           /\ inodes[ino].hard_link = 0
           /\ ino < lastOp.ret

\* C24: sys_linkat returns -1 and leaves the filesystem as it was when old_name and
\* new_name are equal, whether or not the name exists; otherwise it returns 0 when
\* link returned present (and the link was made) and -1 when link returned absent.
\* sys_unlinkat returns 0 when unlink returned present and -1, with nothing
\* changed, when the name does not resolve.
C24_LinkatUnlinkat ==
    [][/\ lastOp'.op = "sys_linkat" =>
              LET old_name == lastOp'.name
                  new_name == lastOp'.new_name
                  r == link(cur, ROOT_INODE, old_name, new_name)
              IN  /\ old_name = new_name => lastOp'.ret = -1 /\ cur' = cur
                  /\ (old_name # new_name /\ r.ret = NONE) =>
                         lastOp'.ret = -1 /\ cur' = cur
                  /\ (old_name # new_name /\ r.ret = SOME /\ status' = OK) =>
                         lastOp'.ret = 0 /\ cur' = r.s
       /\ lastOp'.op = "sys_unlinkat" =>
              LET name == lastOp'.name
              IN  /\ find_inode_id(cur, ROOT_INODE, name) = NONE =>
                         lastOp'.ret = -1 /\ cur' = cur
                  /\ (find_inode_id(cur, ROOT_INODE, name) # NONE /\ status' = OK) =>
                         /\ lastOp'.ret = 0
                         /\ file_count(cur', ROOT_INODE) = file_count(cur, ROOT_INODE) - 1]_vars

\* sys_linkat returned 0 for two different names and the link exists
C24_Witness ==
    /\ status = OK
    /\ lastOp.op = "sys_linkat" /\ lastOp.ret = 0
    /\ lastOp.name # lastOp.new_name
    /\ RootEntries[Len(RootEntries)] = <<lastOp.new_name, lastOp.ino>>
    /\ inodes[lastOp.ino].hard_link = 2

\* C25: sys_fstat(fd, st) returns -1 without writing *st and without a panic when fd
\* is not an open descriptor of the task (beyond the fd table, or a slot emptied by
\* sys_close); for an open fd it writes the file's Stat, returns 0 and leaves the
\* fd table as it was.
C25_FstatChecksFd ==
    [][lastFd'.op = "fstat" =>
          LET fd == lastFd'.fd
              open == fd < Len(fd_table) /\ fd_table[fd + 1] # NONE
          IN  /\ status' = OK
              /\ fd_table' = fd_table
              /\ ~open => lastFd'.ret = -1 /\ stat_mem' = stat_mem
              /\ open => /\ lastFd'.ret = 0
                         /\ stat_mem' = FileStat(cur, fd_table[fd + 1])]_vars

====
